---------------------------- MODULE Spec2Model ----------------------------
(***************************************************************************)
(* The client-side refresh model of the AI Adoption Dashboard: the App     *)
(* shell that mounts one page at a time, and the fetch / refresh logic of  *)
(* the Dashboard, MetricsPage and UsersPage components.                    *)
(*                                                                         *)
(* JavaScript runs each handler to completion, so one action is one        *)
(* handler: a click, a timer tick, a navigation, or the arrival of one     *)
(* HTTP response together with the promise continuations it releases.      *)
(***************************************************************************)
EXTENDS Integers, Sequences, FiniteSets, TLC

\* Bounds of the model.
MaxCycles == 3      \* fetch cycles started in one run, over all pages
MaxMounts == 3      \* page mounts in one run (the first one included)
MaxMutations == 2   \* create / update / delete or GitHub requests sent in one run
MaxVisits == 4      \* page mounts in one run of the SettingsPage specification
MaxCount == 2       \* largest user count or KPI value the server reports
MaxValues == 3      \* values an AnimatedCounter is given in one run

\* AnimatedCounter: duration = 1000 ms, setInterval(..., 16).
Duration == 1000
TickMs == 16

VARIABLES
    activePage,     \* App: which page is rendered
    mounts,         \* number of page instances created so far; the mounted one is the last
    view,           \* the useState fields of the mounted page instance
    timers,         \* page instances whose setInterval is still active
    cycles,         \* every fetch cycle started so far, in start order
    now,            \* the wall clock (new Date()): one instant per handler run
    mutations       \* every request sent outside the fetch cycles so far, in order:
                    \* POST / PUT / DELETE of UsersPage, GitHub calls of SettingsPage

vars == <<activePage, mounts, view, timers, cycles, now, mutations>>

Pages == {"dashboard", "users", "metrics", "settings"}

\* Values of the filter select: "" = All Levels, "1" = one of MATURITY_LEVELS.
FilterLevels == {"", "1"}

\* JavaScript null and [] as held in a result field before any commit.
Null == [endpoint |-> "null", cycle |-> 0]
EmptyList == [endpoint |-> "[]", cycle |-> 0]

\* The sub-requests one fetch cycle of a page issues with Promise.all / await.
Endpoints(page) ==
    CASE page = "dashboard" -> {"/dashboard/summary", "/dashboard/trends"}
      [] page = "metrics"   -> {"/metrics/adoption", "/metrics/productivity",
                                "/metrics/quality"}
      [] page = "users"     -> {"/users"}
      [] OTHER              -> {}

\* res.data of sub-request r of cycle c: the server's answer to that request.
Response(c, r) == [endpoint |-> r, cycle |-> c]

\* useState initial values of each component.
DashboardState(t) ==
    [summary |-> Null, trends |-> EmptyList, loading |-> TRUE,
     lastUpdated |-> t, refreshing |-> FALSE]

MetricsPageState ==
    [activeTab |-> "adoption", adoptionMetrics |-> Null,
     productivityMetrics |-> Null, qualityMetrics |-> Null,
     loading |-> TRUE, refreshing |-> FALSE]

\* The form of the modal as resetForm leaves it, and the other contents told
\* apart: the fields of the user being edited, and what the user has typed.
BlankForm == "blank"
FormContents == {BlankForm, "user", "typed"}

\* openedBy is not a state of the component: it records which button opened
\* the modal last, Null for "Add User" and the row's user for its edit button.
UsersPageState ==
    [users |-> EmptyList, loading |-> TRUE, filterLevel |-> "",
     showModal |-> FALSE, editingUser |-> Null, refreshing |-> FALSE,
     formData |-> BlankForm, openedBy |-> Null]

SettingsPageState ==
    [token |-> "", org |-> "", loading |-> FALSE, testing |-> FALSE,
     result |-> Null, error |-> Null]

\* An async fetch function up to its await: the requests are issued and the
\* cycle is recorded as in flight.  param is the query the closure captured.
NewCycle(page, inst, kind, param) ==
    [page |-> page, inst |-> inst, kind |-> kind, param |-> param,
     subs |-> [r \in Endpoints(page) |-> "pending"],
     outcome |-> "inflight", commits |-> 0, errors |-> 0, setters |-> 0]

\* Variant: state kept per page, so that a cycle of an earlier instance of the
\* page shown writes into the instance now mounted.
LiveByPage(c) == cycles[c].page = activePage

\* A setter of a component instance acts only while that instance is mounted:
\* React ignores a state update of an unmounted component.
Live(c) == cycles[c].inst = mounts

InFlight(c) == cycles[c].outcome = "inflight"

LiveInFlight == {c \in DOMAIN cycles : Live(c) /\ InFlight(c)}

----------------------------------------------------------------------------
\* Dashboard

\* Variant: fetchData raising the full-page spinner on every call.
fetchDataStartLoading(v) == [v EXCEPT !.loading = TRUE]

\* fetchData before the await: the two GETs are issued, no setter is called.
fetchDataStart(v) == v

\* Variant: only the summary response is stored.
DashboardCommitSummaryOnly(v, c) ==
    [v EXCEPT !.summary = Response(c, "/dashboard/summary"),
              !.lastUpdated = now]

\* Variant: the two responses destructured in the wrong order.
DashboardCommitSwapped(v, c) ==
    [v EXCEPT !.summary = Response(c, "/dashboard/trends"),
              !.trends = Response(c, "/dashboard/summary"),
              !.lastUpdated = now]

\* fetchData, try block after the await resolved: the three setters.
DashboardCommit(v, c) ==
    [v EXCEPT !.summary = Response(c, "/dashboard/summary"),
              !.trends = Response(c, "/dashboard/trends"),
              !.lastUpdated = now]

\* Variant: a finally block that forgets setRefreshing(false).
DashboardFinallyKeepsRefreshing(v) == [v EXCEPT !.loading = FALSE]

\* fetchData, finally block.
DashboardFinally(v) == [v EXCEPT !.loading = FALSE, !.refreshing = FALSE]

\* Variant: setLastUpdated moved to the finally block.
fetchDataResumeStamping(v, c, ok) ==
    [DashboardFinally(IF ok THEN DashboardCommit(v, c) ELSE v)
        EXCEPT !.lastUpdated = now]

\* Variant: the setters run although Promise.all rejected.
fetchDataResumeMerging(v, c, ok) == DashboardFinally(DashboardCommit(v, c))

\* Variant: the flags are cleared at the end of the try block only.
fetchDataResumeNoFinally(v, c, ok) ==
    IF ok THEN DashboardFinally(DashboardCommit(v, c)) ELSE v

\* fetchData from the resolution or rejection of Promise.all to its end.
fetchDataResume(v, c, ok) ==
    DashboardFinally(IF ok THEN DashboardCommit(v, c) ELSE v)

\* Variant: the Refresh button disabled while any cycle is in flight.
DashboardRefreshEnabledWhenIdle(v) ==
    ~v.loading /\ ~v.refreshing /\ LiveInFlight = {}

\* The Refresh button is rendered once loading is false; disabled={refreshing}.
DashboardRefreshEnabled(v) == ~v.loading /\ ~v.refreshing

----------------------------------------------------------------------------
\* MetricsPage

\* fetchMetrics before the await: setLoading(true); setRefreshing(true).
\* Variant: a fetchMetrics that raises neither flag.
fetchMetricsStartQuiet(v) == v

\* fetchMetrics up to its await.
fetchMetricsStart(v) == [v EXCEPT !.loading = TRUE, !.refreshing = TRUE]

MetricsCommit(v, c) ==
    [v EXCEPT !.adoptionMetrics = Response(c, "/metrics/adoption"),
              !.productivityMetrics = Response(c, "/metrics/productivity"),
              !.qualityMetrics = Response(c, "/metrics/quality")]

MetricsFinally(v) == [v EXCEPT !.loading = FALSE, !.refreshing = FALSE]

\* Variant: the responses that did arrive are stored although one failed.
fetchMetricsResumeMerging(v, c, ok) == MetricsFinally(MetricsCommit(v, c))

fetchMetricsResume(v, c, ok) ==
    MetricsFinally(IF ok THEN MetricsCommit(v, c) ELSE v)

\* The page returns the spinner alone while loading; disabled={refreshing}.
MetricsRefreshEnabled(v) == ~v.loading /\ ~v.refreshing

----------------------------------------------------------------------------
\* UsersPage

\* fetchUsers before the await: setLoading(true); setRefreshing(true).
fetchUsersStart(v) == [v EXCEPT !.loading = TRUE, !.refreshing = TRUE]

\* GET /users?maturity_level=<param> answers for the level it was asked for.
UsersResponse(c) ==
    [endpoint |-> "/users", cycle |-> c, maturity_level |-> cycles[c].param]

UsersCommit(v, c) == [v EXCEPT !.users = UsersResponse(c)]

UsersFinally(v) == [v EXCEPT !.loading = FALSE, !.refreshing = FALSE]

fetchUsersResume(v, c, ok) ==
    UsersFinally(IF ok THEN UsersCommit(v, c) ELSE v)

\* Variant: a failed save closes the modal as a successful one does.
handleSubmitResumeClosing(v, ok) ==
    IF ok
    THEN fetchUsersStart([v EXCEPT !.showModal = FALSE, !.editingUser = Null,
                                   !.formData = BlankForm])
    ELSE [v EXCEPT !.showModal = FALSE]

\* handleSubmit after its await: close the modal, forget the edited user,
\* reset the form and call fetchUsers(); the catch block only logs.
handleSubmitResume(v, ok) ==
    IF ok
    THEN fetchUsersStart([v EXCEPT !.showModal = FALSE, !.editingUser = Null,
                                   !.formData = BlankForm])
    ELSE v

\* handleDelete after its await: call fetchUsers(); the catch block only logs.
handleDeleteResume(v, ok) == IF ok THEN fetchUsersStart(v) ELSE v

MutationResume(v, kind, ok) ==
    IF kind = "delete" THEN handleDeleteResume(v, ok) ELSE handleSubmitResume(v, ok)

\* The rows of the users table: the server's users, told apart by their id.
UserIds == {1, 2}
User(id) == [endpoint |-> "/users/{id}", cycle |-> id]

\* A POST / PUT / DELETE request sent by page instance inst; filterLevel is
\* the one of the render whose handler sent it, which its fetchUsers() reads;
\* target is the user of /users/{id} (Null for POST /users); openedBy is
\* the opener of the modal at that moment.
NewMutation(kind, inst, v, target) ==
    [kind |-> kind, inst |-> inst, filterLevel |-> v.filterLevel,
     target |-> target, openedBy |-> v.openedBy, status |-> "pending"]

\* The controls are rendered once loading is false.
UsersControlsRendered(v) == ~v.loading

UsersRefreshEnabled(v) == UsersControlsRendered(v) /\ ~v.refreshing

----------------------------------------------------------------------------
\* Promise.all over the sub-requests of a cycle.

AllFulfilled(subs) == \A r \in DOMAIN subs : subs[r] = "ok"

\* Promise.all settles when every promise is fulfilled or as soon as one rejects.
PromiseAllSettles(subs, ok) == IF ok THEN AllFulfilled(subs) ELSE TRUE

\* The state setters the continuation of a fetch function invokes: the result
\* setters of the try block on success, the two of the finally block always.
SetterCalls(page, ok) ==
    CASE page = "dashboard" -> IF ok THEN 5 ELSE 2
      [] page = "metrics"   -> IF ok THEN 5 ELSE 2
      [] page = "users"     -> IF ok THEN 3 ELSE 2
      [] OTHER              -> 0

\* Variant: one log line for every rejected sub-request.
LogsEach(rejects, ok) == IF ~ok THEN 1 ELSE 0

\* console.error of the catch block: it runs when Promise.all rejects, which
\* the first rejected sub-request causes and a later one does not.
Logs(rejects, ok) == IF rejects /\ ~ok THEN 1 ELSE 0

\* The continuation of the page's fetch function on the mounted instance.
Resume(v, c, ok) ==
    CASE cycles[c].page = "dashboard" -> fetchDataResume(v, c, ok)
      [] cycles[c].page = "metrics"   -> fetchMetricsResume(v, c, ok)
      [] cycles[c].page = "users"     -> fetchUsersResume(v, c, ok)
      [] OTHER                        -> v

----------------------------------------------------------------------------
\* Mounting a page: first render (useState) and its mount effect.

MountView(page, t) ==
    CASE page = "dashboard" -> fetchDataStart(DashboardState(t))
      [] page = "metrics"   -> fetchMetricsStart(MetricsPageState)
      [] page = "users"     -> fetchUsersStart(UsersPageState)
      [] OTHER              -> SettingsPageState

MountCycles(page, inst) ==
    IF page = "settings" THEN << >>
    ELSE << NewCycle(page, inst, "mount", "") >>

\* The Dashboard effect also starts setInterval(fetchData, 30000).
MountTimers(page, inst) == IF page = "dashboard" THEN {inst} ELSE {}

\* Variant: an effect that returns no cleanup.
UnmountTimersLeaking(page, inst, ts) == ts

\* Effect cleanup on unmount: the Dashboard's clearInterval(interval).
UnmountTimers(page, inst, ts) == IF page = "dashboard" THEN ts \ {inst} ELSE ts

Init ==
    /\ activePage = "dashboard"
    /\ mounts = 1
    /\ now = 0
    /\ view = MountView("dashboard", 0)
    /\ timers = MountTimers("dashboard", 1)
    /\ cycles = MountCycles("dashboard", 1)
    /\ mutations = << >>

----------------------------------------------------------------------------
\* Actions

\* Sidebar onNavigate -> App.handleNavigate(page): the old page unmounts and the
\* new one mounts.  Choosing the page already shown re-renders nothing.
Navigate(page, limit) ==
    /\ page # activePage
    /\ mounts < limit
    /\ Len(cycles) + Len(MountCycles(page, mounts + 1)) <= MaxCycles
    /\ activePage' = page
    /\ mounts' = mounts + 1
    /\ view' = MountView(page, now)
    /\ timers' = UnmountTimers(activePage, mounts, timers) \cup MountTimers(page, mounts + 1)
    /\ cycles' = cycles \o MountCycles(page, mounts + 1)
    /\ now' = now + 1
    /\ UNCHANGED mutations

handleNavigate(page) == Navigate(page, MaxMounts)

\* setInterval(fetchData, 30000) of Dashboard instance inst fires.
TimerTick(inst) ==
    /\ inst \in timers
    /\ Len(cycles) < MaxCycles
    /\ cycles' = Append(cycles, NewCycle("dashboard", inst, "timer", ""))
    /\ view' = IF inst = mounts THEN fetchDataStart(view) ELSE view
    /\ now' = now + 1
    /\ UNCHANGED <<activePage, mounts, timers, mutations>>

\* Dashboard Refresh button onClick.
handleRefresh ==
    /\ activePage = "dashboard"
    /\ DashboardRefreshEnabled(view)
    /\ Len(cycles) < MaxCycles
    /\ view' = fetchDataStart([view EXCEPT !.refreshing = TRUE])
    /\ cycles' = Append(cycles, NewCycle("dashboard", mounts, "user", ""))
    /\ now' = now + 1
    /\ UNCHANGED <<activePage, mounts, timers, mutations>>

\* MetricsPage Refresh button onClick={fetchMetrics}.
fetchMetrics ==
    /\ activePage = "metrics"
    /\ MetricsRefreshEnabled(view)
    /\ Len(cycles) < MaxCycles
    /\ view' = fetchMetricsStart(view)
    /\ cycles' = Append(cycles, NewCycle("metrics", mounts, "user", ""))
    /\ now' = now + 1
    /\ UNCHANGED <<activePage, mounts, timers, mutations>>

\* UsersPage refresh button onClick={fetchUsers}.
fetchUsers ==
    /\ activePage = "users"
    /\ UsersRefreshEnabled(view)
    /\ Len(cycles) < MaxCycles
    /\ view' = fetchUsersStart(view)
    /\ cycles' = Append(cycles, NewCycle("users", mounts, "user", view.filterLevel))
    /\ now' = now + 1
    /\ UNCHANGED <<activePage, mounts, timers, mutations>>

\* UsersPage filter select onChange: setFilterLevel(e.target.value); fetchUsers().
\* fetchUsers is the closure of the current render: it reads the filterLevel of
\* that render, not the value just passed to the setter.
filterChange(level) ==
    /\ activePage = "users"
    /\ UsersControlsRendered(view)
    /\ level # view.filterLevel
    /\ Len(cycles) < MaxCycles
    /\ view' = fetchUsersStart([view EXCEPT !.filterLevel = level])
    /\ cycles' = Append(cycles, NewCycle("users", mounts, "filter", view.filterLevel))
    /\ now' = now + 1
    /\ UNCHANGED <<activePage, mounts, timers, mutations>>

\* One HTTP response arrives: sub-request r of cycle c is fulfilled (ok) or
\* rejected.  If that settles the cycle's Promise.all, the fetch function runs
\* to its end in the same turn: catch logs once, the setters act on a mounted
\* instance and do nothing on an unmounted one.  A response to a cycle whose
\* Promise.all has already rejected runs no code of the component, so it is
\* no step of the model: that sub-request stays "pending".
Settle(c, r, ok) ==
    /\ c \in DOMAIN cycles
    /\ r \in DOMAIN cycles[c].subs
    /\ InFlight(c)
    /\ cycles[c].subs[r] = "pending"
    /\ LET subs == [cycles[c].subs EXCEPT ![r] = IF ok THEN "ok" ELSE "err"]
           ends == PromiseAllSettles(subs, ok)
       IN  /\ cycles' = [cycles EXCEPT ![c] =
                 [@ EXCEPT !.subs = subs,
                           !.outcome = IF ~ends THEN @
                                       ELSE IF ok THEN "succeeded" ELSE "failed",
                           !.commits = IF ends /\ ok /\ Live(c) THEN @ + 1 ELSE @,
                           !.errors = @ + Logs(ends, ok),
                           !.setters = IF ends THEN SetterCalls(cycles[c].page, ok)
                                       ELSE @]]
           /\ view' = IF ends /\ Live(c) THEN Resume(view, c, ok) ELSE view
    /\ now' = now + 1
    /\ UNCHANGED <<activePage, mounts, timers, mutations>>

Next ==
    \/ \E page \in Pages : handleNavigate(page)
    \/ \E inst \in 1..MaxMounts : TimerTick(inst)
    \/ handleRefresh
    \/ fetchMetrics
    \/ fetchUsers
    \/ \E level \in FilterLevels : filterChange(level)
    \/ \E c \in 1..MaxCycles, r \in UNION {Endpoints(p) : p \in Pages}, ok \in BOOLEAN :
          Settle(c, r, ok)

Spec == Init /\ [][Next]_vars

\* A response to a sub-request of a cycle whose Promise.all has already
\* rejected: Promise.all has subscribed to the promise, so a rejection is
\* handled and dropped, and a fulfilment is dropped too.  No code of the
\* component runs; only the record of the sub-request changes.
LateSettle(c, r, ok) ==
    /\ c \in DOMAIN cycles
    /\ r \in DOMAIN cycles[c].subs
    /\ ~InFlight(c)
    /\ cycles[c].subs[r] = "pending"
    /\ cycles' = [cycles EXCEPT ![c] =
          [@ EXCEPT !.subs = [@ EXCEPT ![r] = IF ok THEN "ok" ELSE "err"],
                    !.errors = @ + Logs(FALSE, ok)]]
    /\ now' = now + 1
    /\ UNCHANGED <<activePage, mounts, view, timers, mutations>>

\* The Dashboard left mounted, with every response followed to its arrival.
DashboardNext ==
    \/ TimerTick(mounts)
    \/ handleRefresh
    \/ \E c \in 1..MaxCycles, r \in Endpoints("dashboard"), ok \in BOOLEAN :
          Settle(c, r, ok)
    \/ \E c \in 1..MaxCycles, r \in Endpoints("dashboard"), ok \in BOOLEAN :
          LateSettle(c, r, ok)

DashboardSpec == Init /\ [][DashboardNext]_vars

\* The handlers of the modal only set state: they send nothing and read no
\* clock, so the instant at which they run is not recorded.

\* Variant: an "Add User" button that only resets the form and opens the modal.
addUserClickKeepingEdit ==
    /\ activePage = "users"
    /\ UsersControlsRendered(view)
    /\ view' = [view EXCEPT !.formData = BlankForm, !.showModal = TRUE,
                            !.openedBy = Null]
    /\ UNCHANGED <<activePage, mounts, timers, cycles, mutations, now>>

\* UsersPage "Add User" button.
addUserClick ==
    /\ activePage = "users"
    /\ UsersControlsRendered(view)
    /\ view' = [view EXCEPT !.formData = BlankForm, !.editingUser = Null,
                            !.showModal = TRUE, !.openedBy = Null]
    /\ UNCHANGED <<activePage, mounts, timers, cycles, mutations, now>>

\* UsersPage edit button of a row.
handleEdit(id) ==
    /\ activePage = "users"
    /\ UsersControlsRendered(view)
    /\ view.users # EmptyList
    /\ view' = [view EXCEPT !.editingUser = User(id), !.formData = "user",
                            !.showModal = TRUE, !.openedBy = User(id)]
    /\ UNCHANGED <<activePage, mounts, timers, cycles, mutations, now>>

\* Click on the modal overlay or on Cancel.
closeModal ==
    /\ activePage = "users"
    /\ UsersControlsRendered(view)
    /\ view.showModal
    /\ view' = [view EXCEPT !.showModal = FALSE]
    /\ UNCHANGED <<activePage, mounts, timers, cycles, mutations, now>>

\* onChange of a field of the modal's form.
formChange ==
    /\ activePage = "users"
    /\ UsersControlsRendered(view)
    /\ view.showModal
    /\ view.formData # "typed"
    /\ view' = [view EXCEPT !.formData = "typed"]
    /\ UNCHANGED <<activePage, mounts, timers, cycles, mutations, now>>

\* Submit of the modal's form, up to the await: PUT when a user is being
\* edited, POST otherwise.  The username field is required, so the browser
\* does not submit the blank form.
handleSubmit ==
    /\ activePage = "users"
    /\ UsersControlsRendered(view)
    /\ view.showModal
    /\ view.formData # BlankForm
    /\ Len(mutations) < MaxMutations
    /\ mutations' = Append(mutations,
          NewMutation(IF view.editingUser # Null THEN "update" ELSE "create",
                      mounts, view, view.editingUser))
    /\ now' = now + 1
    /\ UNCHANGED <<activePage, mounts, view, timers, cycles>>

\* Delete button of a row, confirmed, up to the await.
handleDelete(id) ==
    /\ activePage = "users"
    /\ UsersControlsRendered(view)
    /\ view.users # EmptyList
    /\ Len(mutations) < MaxMutations
    /\ mutations' = Append(mutations, NewMutation("delete", mounts, view, User(id)))
    /\ now' = now + 1
    /\ UNCHANGED <<activePage, mounts, view, timers, cycles>>

\* The response to mutation m arrives and its handler runs to the end.  On
\* success it calls fetchUsers(), which issues GET /users whether or not the
\* page is still mounted; the setters act on a mounted instance only.  Every
\* mutation has room for its refetch beside the MaxCycles other cycles.
SettleMutation(m, ok) ==
    /\ m \in DOMAIN mutations
    /\ mutations[m].status = "pending"
    /\ ok => Len(cycles) < MaxCycles + MaxMutations
    /\ mutations' = [mutations EXCEPT ![m].status = IF ok THEN "ok" ELSE "err"]
    /\ view' = IF mutations[m].inst = mounts
               THEN MutationResume(view, mutations[m].kind, ok)
               ELSE view
    /\ cycles' = IF ok
                 THEN Append(cycles, NewCycle("users", mutations[m].inst, "mutation",
                                              mutations[m].filterLevel))
                 ELSE cycles
    /\ now' = now + 1
    /\ UNCHANGED <<activePage, mounts, timers>>

\* The mount cycle of the first Dashboard after both responses arrived.
DashboardLoaded ==
    [NewCycle("dashboard", 1, "mount", "") EXCEPT
        !.subs = [r \in Endpoints("dashboard") |-> "ok"],
        !.outcome = "succeeded", !.commits = 1,
        !.setters = SetterCalls("dashboard", TRUE)]

\* The App after the Dashboard has loaded and the user has clicked "Users"
\* in the sidebar.
UsersInit ==
    /\ activePage = "users"
    /\ mounts = 2
    /\ now = 3
    /\ view = MountView("users", 2)
    /\ timers = {}
    /\ cycles = << DashboardLoaded >> \o MountCycles("users", 2)
    /\ mutations = << >>

UsersNext ==
    \/ \E page \in Pages : handleNavigate(page)
    \/ fetchUsers
    \/ \E level \in FilterLevels : filterChange(level)
    \/ addUserClick
    \/ \E id \in UserIds : handleEdit(id)
    \/ closeModal
    \/ formChange
    \/ handleSubmit
    \/ \E id \in UserIds : handleDelete(id)
    \/ \E m \in 1..MaxMutations, ok \in BOOLEAN : SettleMutation(m, ok)
    \/ \E c \in 1..(MaxCycles + MaxMutations),
          r \in UNION {Endpoints(p) : p \in Pages}, ok \in BOOLEAN :
          Settle(c, r, ok)

UsersSpec == UsersInit /\ [][UsersNext]_vars

----------------------------------------------------------------------------
\* SettingsPage

\* Values of the token and organization inputs: empty or filled in.
Texts == {"", "x"}

ValidationError == [message |-> "Please enter both token and organization name"]
ConnectionFailed == [message |-> "Connection failed"]
SyncFailed == [message |-> "Sync failed"]

\* if (!token || !org) of both handlers, negated.
HasCredentials(v) == v.token # "" /\ v.org # ""

\* Both buttons: disabled={testing || loading}.
GithubEnabled(v) == ~v.testing /\ ~v.loading

\* The early return of both handlers.
Rejected(v) == [v EXCEPT !.error = ValidationError]

\* testConnection / handleSync from the validation to the await.
testConnectionStart(v) ==
    [v EXCEPT !.testing = TRUE, !.error = Null, !.result = Null]

handleSyncStart(v) ==
    [v EXCEPT !.loading = TRUE, !.error = Null, !.result = Null]

\* Variant: a testConnection whose failure path leaves testing set.
testConnectionResumeStuck(v, m, ok) ==
    IF ok THEN [v EXCEPT !.result = [type |-> "test", request |-> m],
                         !.testing = FALSE]
    ELSE [v EXCEPT !.error = ConnectionFailed]

\* testConnection / handleSync after the await: try or catch, then finally.
testConnectionResume(v, m, ok) ==
    [(IF ok THEN [v EXCEPT !.result = [type |-> "test", request |-> m]]
            ELSE [v EXCEPT !.error = ConnectionFailed])
        EXCEPT !.testing = FALSE]

handleSyncResume(v, m, ok) ==
    [(IF ok THEN [v EXCEPT !.result = [type |-> "sync", request |-> m]]
            ELSE [v EXCEPT !.error = SyncFailed])
        EXCEPT !.loading = FALSE]

\* GET /github/test-connection or POST /github/sync sent by instance inst.
NewGithubRequest(kind, inst) == [kind |-> kind, inst |-> inst, status |-> "pending"]

\* onChange of the token and of the organization input.
setToken(t) ==
    /\ activePage = "settings"
    /\ t # view.token
    /\ view' = [view EXCEPT !.token = t]
    /\ UNCHANGED <<activePage, mounts, timers, cycles, mutations, now>>

setOrg(o) ==
    /\ activePage = "settings"
    /\ o # view.org
    /\ view' = [view EXCEPT !.org = o]
    /\ UNCHANGED <<activePage, mounts, timers, cycles, mutations, now>>

\* "Test Connection" onClick, up to the return or the await.
testConnection ==
    /\ activePage = "settings"
    /\ GithubEnabled(view)
    /\ IF HasCredentials(view)
       THEN /\ Len(mutations) < MaxMutations
            /\ view' = testConnectionStart(view)
            /\ mutations' = Append(mutations, NewGithubRequest("test", mounts))
            /\ now' = now + 1
       ELSE /\ view' = Rejected(view)
            /\ UNCHANGED <<mutations, now>>
    /\ UNCHANGED <<activePage, mounts, timers, cycles>>

\* "Sync Data" onClick, up to the return or the await.
handleSync ==
    /\ activePage = "settings"
    /\ GithubEnabled(view)
    /\ IF HasCredentials(view)
       THEN /\ Len(mutations) < MaxMutations
            /\ view' = handleSyncStart(view)
            /\ mutations' = Append(mutations, NewGithubRequest("sync", mounts))
            /\ now' = now + 1
       ELSE /\ view' = Rejected(view)
            /\ UNCHANGED <<mutations, now>>
    /\ UNCHANGED <<activePage, mounts, timers, cycles>>

\* The response to GitHub request m arrives and its handler runs to the end;
\* the setters act on a mounted instance only.
SettleGithub(m, ok) ==
    /\ m \in DOMAIN mutations
    /\ mutations[m].status = "pending"
    /\ mutations' = [mutations EXCEPT ![m].status = IF ok THEN "ok" ELSE "err"]
    /\ view' = IF mutations[m].inst # mounts THEN view
               ELSE IF mutations[m].kind = "test"
                    THEN testConnectionResume(view, m, ok)
                    ELSE handleSyncResume(view, m, ok)
    /\ now' = now + 1
    /\ UNCHANGED <<activePage, mounts, timers, cycles>>

\* The App after the Dashboard has loaded and the user has clicked
\* "GitHub Sync" in the sidebar.
SettingsInit ==
    /\ activePage = "settings"
    /\ mounts = 2
    /\ now = 3
    /\ view = MountView("settings", 2)
    /\ timers = {}
    /\ cycles = << DashboardLoaded >>
    /\ mutations = << >>

SettingsNext ==
    \/ \E page \in Pages : Navigate(page, MaxVisits)
    \/ \E t \in Texts : setToken(t)
    \/ \E o \in Texts : setOrg(o)
    \/ testConnection
    \/ handleSync
    \/ \E m \in 1..MaxMutations, ok \in BOOLEAN : SettleGithub(m, ok)

SettingsSpec == SettingsInit /\ [][SettingsNext]_vars

----------------------------------------------------------------------------
\* The percentages of the Dashboard

\* JavaScript values of the arithmetic: numbers, NaN, Infinity, undefined.
Num(n) == [kind |-> "number", val |-> n]
NaN == [kind |-> "NaN", val |-> 0]
Infinity == [kind |-> "Infinity", val |-> 0]
Undefined == [kind |-> "undefined", val |-> 0]

\* x || d: undefined, NaN and 0 are falsy.
Or(x, d) ==
    IF x.kind \in {"undefined", "NaN"} \/ (x.kind = "number" /\ x.val = 0)
    THEN d ELSE x

\* summary?.field: undefined when summary is null.
Get(summary, field) == IF summary = Null THEN Undefined ELSE summary[field]

\* (a / b) * 100 on non-negative operands, a number being kept in whole
\* percent (rounded down): undefined converts to NaN, 0 / 0 is NaN, n / 0
\* is Infinity, and NaN and Infinity stay what they are when multiplied.
PercentOf(a, b) ==
    IF a.kind \in {"undefined", "NaN"} \/ b.kind \in {"undefined", "NaN"} THEN NaN
    ELSE IF a.kind = "Infinity" THEN (IF b.kind = "Infinity" THEN NaN ELSE Infinity)
    ELSE IF b.kind = "Infinity" THEN Num(0)
    ELSE IF b.val = 0 THEN (IF a.val = 0 THEN NaN ELSE Infinity)
    ELSE Num((a.val * 100) \div b.val)

\* Math.min(x, 100): NaN if x is NaN.
Min100(x) ==
    IF x.kind \in {"undefined", "NaN"} THEN NaN
    ELSE IF x.kind = "Infinity" THEN Num(100)
    ELSE IF x.val > 100 THEN Num(100) ELSE x

\* const totalUsers = summary?.total_users || 1.
totalUsers(summary) == Or(Get(summary, "total_users"), Num(1))

\* maturityData[i].count = summary?.l<i>_count || 0.
maturityCount(summary, field) == Or(Get(summary, field), Num(0))

\* What the render of the loaded Dashboard derives from summary: the
\* denominator, the "% of total" of the L5 card, the widths of the L0 and L5
\* maturity bars, and the width of a KPI bar when summary.kpis is there.
DashboardRender(summary) ==
    [totalUsers |-> totalUsers(summary),
     l5Share |-> PercentOf(Get(summary, "l5_count"), totalUsers(summary)),
     l0Width |-> PercentOf(maturityCount(summary, "l0_count"), totalUsers(summary)),
     l5Width |-> PercentOf(maturityCount(summary, "l5_count"), totalUsers(summary)),
     kpiWidth |-> IF Get(summary, "kpis") = Undefined THEN Undefined
                  ELSE Min100(PercentOf(summary.kpis.current, summary.kpis.target))]

\* What a field of the server's summary may hold: a count, or nothing.
Counts == {Undefined} \cup {Num(n) : n \in 0..MaxCount}

\* summary.kpis: absent, or one KPI with its current and target value.
Kpis == {Undefined} \cup [current : {Num(n) : n \in 0..MaxCount},
                          target : {Num(n) : n \in 0..MaxCount}]

\* res.data of GET /dashboard/summary.
Summaries ==
    [total_users : Counts, l0_count : Counts, l5_count : Counts, kpis : Kpis]

\* The mount cycle of the first Dashboard after its summary request failed.
DashboardFailed ==
    [NewCycle("dashboard", 1, "mount", "") EXCEPT
        !.subs = [r \in Endpoints("dashboard") |->
                    IF r = "/dashboard/summary" THEN "err" ELSE "pending"],
        !.outcome = "failed", !.errors = 1,
        !.setters = SetterCalls("dashboard", FALSE)]

\* The Dashboard after its first load: it succeeded with some summary of the
\* server, or it failed and summary is still null.  rendered holds what the
\* render derives, once it has run.
RenderInit ==
    /\ activePage = "dashboard"
    /\ mounts = 1
    /\ timers = {1}
    /\ mutations = << >>
    /\ \E s \in Summaries \cup {Null} :
          /\ cycles = << IF s = Null THEN DashboardFailed ELSE DashboardLoaded >>
          /\ now = IF s = Null THEN 1 ELSE 2
          /\ view = [summary |-> s, trends |-> EmptyList, loading |-> FALSE,
                     lastUpdated |-> IF s = Null THEN 0 ELSE 1,
                     refreshing |-> FALSE, rendered |-> Null]

\* React renders the page.
Render ==
    /\ activePage = "dashboard"
    /\ ~view.loading
    /\ view.rendered = Null
    /\ view' = [view EXCEPT !.rendered = DashboardRender(view.summary)]
    /\ UNCHANGED <<activePage, mounts, timers, cycles, now, mutations>>

RenderNext == Render

RenderSpec == RenderInit /\ [][RenderNext]_vars

----------------------------------------------------------------------------
\* AnimatedCounter of the Dashboard

\* The value prop: a number of the summary (a negative one included), or
\* something that is no number.
Targets == {Undefined} \cup {Num(n) : n \in -1..MaxCount}

\* const end = parseFloat(value) || 0.
parseFloat(value) == IF value.kind = "number" THEN value ELSE NaN

End(value) == Or(parseFloat(value), Num(0)).val

\* The effect of AnimatedCounter for a value: current = 0 and a new interval
\* with identifier id.  count is kept: it is state of the component.  count
\* and current are held multiplied by Duration, so that the increment
\* end / (Duration / TickMs) is the whole number end * TickMs.
CounterEffect(v, value, id) ==
    [v EXCEPT !.value = value, !.end = End(value), !.current = 0, !.timer = id]

\* A mounted AnimatedCounter right after its first effect.
CounterState(value) ==
    CounterEffect([value |-> value, count |-> 0, end |-> 0, current |-> 0,
                   timer |-> 0], value, 1)

\* The interval callback: current += increment, then setCount(end) and
\* clearInterval when current >= end, setCount(current) otherwise.
CounterStep(v) ==
    LET current == v.current + v.end * TickMs
    IN  IF current >= v.end * Duration
        THEN [v EXCEPT !.current = current, !.count = v.end * Duration]
        ELSE [v EXCEPT !.current = current, !.count = current]

\* What the span shows for a whole-number value: Math.floor(count).
Displayed(v) == v.count \div Duration

CounterDone(v) == v.current >= v.end * Duration /\ v.current # 0

\* The loaded Dashboard with one of its counters; view is the counter's state
\* and the closure of its effect, timers the intervals not cleared yet,
\* mounts the number of intervals created.
CounterInit ==
    /\ activePage = "dashboard"
    /\ mounts = 1
    /\ now = 2
    /\ cycles = << DashboardLoaded >>
    /\ mutations = << >>
    /\ timers = {1}
    /\ \E value \in Targets : view = CounterState(value)

\* The interval of the counter fires.
CounterTick ==
    /\ activePage = "dashboard"
    /\ view.timer \in timers
    /\ view' = CounterStep(view)
    /\ timers' = IF view'.count = view.end * Duration /\ view'.current >= view.end * Duration
                 THEN timers \ {view.timer} ELSE timers
    /\ UNCHANGED <<activePage, mounts, cycles, now, mutations>>

\* A refresh commits a summary with another number: the counter is rendered
\* with a new value, the cleanup of the old effect clears its interval and
\* the effect runs again.
valueChanges(value) ==
    /\ activePage = "dashboard"
    /\ value # view.value
    /\ mounts < MaxValues
    /\ mounts' = mounts + 1
    /\ view' = CounterEffect(view, value, mounts + 1)
    /\ timers' = (timers \ {view.timer}) \cup {mounts + 1}
    /\ UNCHANGED <<activePage, cycles, now, mutations>>

\* The Dashboard is left: the cleanup of the effect clears the interval.
counterUnmounts ==
    /\ activePage = "dashboard"
    /\ activePage' = "settings"
    /\ timers' = timers \ {view.timer}
    /\ UNCHANGED <<mounts, view, cycles, now, mutations>>

CounterNext ==
    \/ CounterTick
    \/ \E value \in Targets : valueChanges(value)
    \/ counterUnmounts

\* The interval keeps firing as long as it is not cleared.
CounterSpec == CounterInit /\ [][CounterNext]_vars /\ WF_vars(CounterTick)

----------------------------------------------------------------------------
\* Some pending sub-request gets its response.
ResponseArrives ==
    \E c \in 1..MaxCycles, r \in UNION {Endpoints(p) : p \in Pages}, ok \in BOOLEAN :
        Settle(c, r, ok)

\* The runs in which every issued sub-request settles in the end.
FairSpec == Spec /\ WF_vars(ResponseArrives)

\* The request timeout of the api service: a sub-request that is still pending
\* when its time is up is rejected, which the component sees as a failure.
RequestTimeout(c, r) == Settle(c, r, FALSE)

TimeoutExpires ==
    \E c \in 1..MaxCycles, r \in UNION {Endpoints(p) : p \in Pages} :
        RequestTimeout(c, r)

\* The runs in which responses may never come but timeouts do expire.
TimeoutSpec == Spec /\ WF_vars(TimeoutExpires)

----------------------------------------------------------------------------
\* Vocabulary of the properties

\* Cycles started by the mounted page instance.
LiveCycles == {c \in DOMAIN cycles : Live(c)}

Terminated(c) == cycles[c].outcome # "inflight"

\* Cycle c was started after every other cycle of its page instance.
LatestStarted(c) ==
    \A d \in DOMAIN cycles : cycles[d].inst = cycles[c].inst => d <= c

\* Cycle c commits / terminates / is started in the step.
Commits(c) == cycles'[c].commits > cycles[c].commits

Terminates(c) == InFlight(c) /\ cycles'[c].outcome # "inflight"

Starts(kinds) ==
    /\ Len(cycles') = Len(cycles) + 1
    /\ cycles'[Len(cycles')].inst = mounts'
    /\ cycles'[Len(cycles')].kind \in kinds

\* The result fields of a page's state.
Snapshot(v, page) ==
    CASE page = "dashboard" -> <<v.summary, v.trends>>
      [] page = "metrics"   -> <<v.adoptionMetrics, v.productivityMetrics,
                                 v.qualityMetrics>>
      [] page = "users"     -> <<v.users>>
      [] OTHER              -> << >>

----------------------------------------------------------------------------
\* C1: in the Dashboard, once a later-started cycle has committed, the results
\* of an earlier-started cycle never replace it: the stored summary and trends
\* come from the latest-started cycle among those that have committed.
C1_NoStaleOverwrite ==
    activePage = "dashboard" =>
        \A c \in LiveCycles : cycles[c].commits > 0 =>
            view.summary.cycle >= c /\ view.trends.cycle >= c

\* C2: a Dashboard cycle commits only if, at that moment, no cycle of the view
\* was started after it.
C2_CommitOnlyIfLatest ==
    [][\A c \in DOMAIN cycles :
          (cycles[c].page = "dashboard" /\ Commits(c)) => LatestStarted(c)]_vars

\* C3: when a cycle of the Dashboard or of MetricsPage fails, its completion
\* step leaves every result field of the page as it was.
C3_FailureWritesNothing ==
    [][\A c \in DOMAIN cycles :
          (/\ cycles[c].page \in {"dashboard", "metrics"}
           /\ Live(c)
           /\ Terminates(c)
           /\ cycles'[c].outcome = "failed")
          => Snapshot(view', activePage) = Snapshot(view, activePage)]_vars

\* C3 witness: on MetricsPage a refresh cycle has failed although one of its
\* sub-requests succeeded, and the page still holds an earlier commit.
C3_Witness ==
    /\ activePage = "metrics"
    /\ view.adoptionMetrics # Null
    /\ \E c \in LiveCycles :
          /\ cycles[c].outcome = "failed"
          /\ \E r \in DOMAIN cycles[c].subs : cycles[c].subs[r] = "ok"
          /\ view.adoptionMetrics.cycle < c

\* C4: the Dashboard's summary and trends are both initial or both the
\* responses of one cycle; a cycle commits at most once, only on success, and
\* a successful cycle that nothing superseded has committed exactly once.
C4_AtomicCommit ==
    activePage = "dashboard" =>
        /\ \/ view.summary = Null /\ view.trends = EmptyList
           \/ \E c \in LiveCycles :
                 /\ view.summary = Response(c, "/dashboard/summary")
                 /\ view.trends = Response(c, "/dashboard/trends")
        /\ \A c \in LiveCycles :
              /\ cycles[c].commits <= 1
              /\ cycles[c].commits = 1 => cycles[c].outcome = "succeeded"
              /\ (cycles[c].outcome = "succeeded" /\ LatestStarted(c))
                    => cycles[c].commits = 1

\* C4 witness: a second cycle has committed over the first one's commit.
C4_Witness ==
    /\ activePage = "dashboard"
    /\ \E c, d \in LiveCycles :
          /\ c < d
          /\ cycles[c].commits = 1
          /\ cycles[d].commits = 1
          /\ view.summary.cycle = d

\* C5: the Dashboard's loading flag is true exactly as long as no cycle of the
\* mounted view has reached a terminal outcome; terminal outcomes are never
\* undone, so it is never true again.
C5_LoadingUntilFirstOutcome ==
    activePage = "dashboard" =>
        (view.loading <=> \A c \in LiveCycles : ~Terminated(c))

\* C5 witness: after the first outcome a user refresh and a timer cycle are in
\* flight and loading is false.
C5_Witness ==
    /\ activePage = "dashboard"
    /\ ~view.loading
    /\ \E c, d \in LiveInFlight : cycles[c].kind = "user" /\ cycles[d].kind = "timer"

\* C6: in MetricsPage and UsersPage loading is true only while no cycle of
\* the mounted view has completed.
C6_LoadingOnlyBeforeFirst ==
    activePage \in {"metrics", "users"} =>
        (view.loading => \A c \in LiveCycles : ~Terminated(c))

\* C7: every Dashboard cycle after the mount cycle turns refreshing from false
\* to true when it is triggered and from true to false when it terminates.
C7_RefreshingPerCycle ==
    [][(activePage = "dashboard" /\ activePage' = "dashboard") =>
          /\ Starts({"timer", "user"}) => (~view.refreshing /\ view'.refreshing)
          /\ \A c \in LiveCycles :
                (cycles[c].kind # "mount" /\ Terminates(c))
                   => (view.refreshing /\ ~view'.refreshing)]_vars

\* C8: while a user-triggered Dashboard cycle is in flight, refreshing is true.
C8_RefreshingWhileUserCycle ==
    activePage = "dashboard" =>
        ((\E c \in LiveInFlight : cycles[c].kind = "user") => view.refreshing)

\* C9: a cycle of the Dashboard or of MetricsPage that has reached its
\* terminal outcome has no sub-request still pending.
C9_OutcomeAfterAllSettled ==
    \A c \in DOMAIN cycles :
        (cycles[c].page \in {"dashboard", "metrics"} /\ Terminated(c))
           => \A r \in DOMAIN cycles[c].subs : cycles[c].subs[r] # "pending"

\* C10 as stated: whenever the Dashboard shows its Refresh button and a cycle
\* is in flight, a timer tick and a user refresh can each start a new cycle.
C10_NeverBlocked ==
    (/\ activePage = "dashboard"
     /\ ~view.loading
     /\ LiveInFlight # {}
     /\ Len(cycles) < MaxCycles)
    => /\ ENABLED (TimerTick(mounts) /\ Starts({"timer"}))
       /\ ENABLED (handleRefresh /\ Starts({"user"}))

\* C10 amended: in the mounted Dashboard a timer tick always starts a new
\* cycle at once; a user refresh starts one at once exactly when loading and
\* refreshing are both false, whatever is in flight, and is blocked otherwise.
C10_BlockedOnlyByFlags ==
    (activePage = "dashboard" /\ Len(cycles) < MaxCycles)
    => /\ ENABLED (TimerTick(mounts) /\ Starts({"timer"}))
       /\ (ENABLED (handleRefresh /\ Starts({"user"})))
             <=> (~view.loading /\ ~view.refreshing)

\* C10 witness: the Refresh button is enabled while a timer cycle is in flight.
C10_Witness ==
    /\ activePage = "dashboard"
    /\ Len(cycles) < MaxCycles
    /\ ~view.loading /\ ~view.refreshing
    /\ \E c \in LiveInFlight : cycles[c].kind = "timer"



----------------------------------------------------------------------------
\* A Dashboard cycle of an instance that is no longer mounted ends in the step.
EndsUnmounted(c) ==
    /\ cycles[c].page = "dashboard"
    /\ cycles[c].inst # mounts
    /\ Terminates(c)

\* C11 as stated: when a cycle of an unmounted Dashboard resolves, the state
\* of the page shown is untouched and no state setter is invoked.
C11_NoSetterAfterUnmount ==
    [][\A c \in DOMAIN cycles :
          EndsUnmounted(c) => (view' = view /\ cycles'[c].setters = 0)]_vars

\* C11 amended: when a cycle of an unmounted Dashboard resolves, fetchData
\* runs to its end (its finally block included), nothing is committed and the
\* state of the page shown is untouched; the setters are invoked without effect.
C11_NoWriteAfterUnmount ==
    [][\A c \in DOMAIN cycles :
          EndsUnmounted(c) =>
             /\ view' = view
             /\ cycles'[c].commits = 0
             /\ cycles'[c].outcome \in {"succeeded", "failed"}
             /\ cycles'[c].setters >= 2]_vars

\* C11 witness: a cycle of the first Dashboard instance succeeded after that
\* instance was unmounted, and the Dashboard is shown again.
C11_Witness ==
    /\ activePage = "dashboard"
    /\ \E c \in DOMAIN cycles :
          /\ cycles[c].page = "dashboard"
          /\ cycles[c].inst # mounts
          /\ cycles[c].outcome = "succeeded"
          /\ cycles[c].commits = 0

\* C12: exactly the mounted Dashboard holds a refresh interval, no other
\* interval is active, and a timer tick starts a cycle only for the mounted
\* Dashboard.
C12_TimerScopedToMount ==
    /\ [](timers = IF activePage = "dashboard" THEN {mounts} ELSE {})
    /\ [][(/\ Len(cycles') = Len(cycles) + 1
           /\ cycles'[Len(cycles')].kind = "timer")
          => (activePage = "dashboard" /\ cycles'[Len(cycles')].inst = mounts)]_vars

\* C12 witness: after navigating away and back, the second Dashboard instance
\* holds the only interval and a tick of it has started a cycle.
C12_Witness ==
    /\ activePage = "dashboard"
    /\ mounts > 1
    /\ timers = {mounts}
    /\ \E c \in DOMAIN cycles : cycles[c].inst = mounts /\ cycles[c].kind = "timer"

\* C13: in the mounted Dashboard lastUpdated changes exactly in the steps
\* that commit; a commit sets it to the time of the step and clears loading
\* and refreshing; a failing cycle clears both flags and keeps lastUpdated.
C13_LastUpdatedByCommits ==
    [][(activePage = "dashboard" /\ mounts' = mounts) =>
          /\ (view'.lastUpdated # view.lastUpdated)
                <=> (\E c \in LiveCycles : Commits(c))
          /\ \A c \in LiveCycles :
                Commits(c) =>
                   /\ view'.lastUpdated = now
                   /\ view'.lastUpdated > view.lastUpdated
                   /\ ~view'.loading /\ ~view'.refreshing
          /\ \A c \in LiveCycles :
                (Terminates(c) /\ cycles'[c].outcome = "failed") =>
                   /\ view'.lastUpdated = view.lastUpdated
                   /\ ~view'.loading /\ ~view'.refreshing]_vars

\* C13 witness: a user refresh failed after an earlier commit; lastUpdated is
\* still older than the failure.
C13_Witness ==
    /\ activePage = "dashboard"
    /\ ~view.loading /\ ~view.refreshing
    /\ \E c, d \in LiveCycles :
          /\ c < d
          /\ cycles[c].commits = 1
          /\ cycles[d].kind = "user" /\ cycles[d].outcome = "failed"
          /\ view.summary.cycle = c
          /\ view.lastUpdated < now - 1

\* C14: when the Dashboard's mount cycle got its summary and then lost its
\* trends, the cycle has failed and logged once, loading is false, and unless
\* another cycle has committed the summary is still unset and trends empty.
C14_MountPartialFailure ==
    activePage = "dashboard" =>
        \A c \in LiveCycles :
            (/\ cycles[c].kind = "mount"
             /\ cycles[c].subs["/dashboard/summary"] = "ok"
             /\ cycles[c].subs["/dashboard/trends"] = "err")
            => /\ cycles[c].outcome = "failed"
               /\ cycles[c].errors = 1
               /\ ~view.loading
               /\ (\A d \in LiveCycles : cycles[d].commits = 0)
                     => (view.summary = Null /\ view.trends = EmptyList)

\* C14 witness: that mount cycle is the only cycle of the mounted Dashboard.
C14_Witness ==
    /\ activePage = "dashboard"
    /\ \E c \in LiveCycles :
          /\ LiveCycles = {c}
          /\ cycles[c].subs["/dashboard/summary"] = "ok"
          /\ cycles[c].subs["/dashboard/trends"] = "err"

\* What the server returned to the sub-requests of a page's mount cycle c.
ReturnedToMount(c) ==
    CASE cycles[c].page = "dashboard" ->
            << [endpoint |-> "/dashboard/summary", cycle |-> c],
               [endpoint |-> "/dashboard/trends", cycle |-> c] >>
      [] cycles[c].page = "metrics" ->
            << [endpoint |-> "/metrics/adoption", cycle |-> c],
               [endpoint |-> "/metrics/productivity", cycle |-> c],
               [endpoint |-> "/metrics/quality", cycle |-> c] >>
      [] cycles[c].page = "users" ->
            << [endpoint |-> "/users", cycle |-> c, maturity_level |-> ""] >>
      [] OTHER -> << >>

\* C15: in the step in which the mount cycle of the page shown succeeds, each
\* result field becomes the value returned for it and loading becomes false.
C15_MountSuccessCommitsAll ==
    [][\A c \in LiveCycles :
          (/\ cycles[c].kind = "mount"
           /\ Terminates(c)
           /\ cycles'[c].outcome = "succeeded")
          => /\ Snapshot(view', activePage) = ReturnedToMount(c)
             /\ ~view'.loading]_vars

\* C15 witness: the Dashboard shows the values of its mount cycle.
C15_Witness ==
    /\ activePage = "dashboard"
    /\ ~view.loading
    /\ \E c \in LiveCycles :
          /\ cycles[c].kind = "mount"
          /\ cycles[c].outcome = "succeeded"
          /\ view.summary = [endpoint |-> "/dashboard/summary", cycle |-> c]
          /\ view.trends = [endpoint |-> "/dashboard/trends", cycle |-> c]

\* The loading and refreshing flags of the page shown are both false.
FlagsClear ==
    activePage \in {"dashboard", "metrics", "users"} =>
        (~view.loading /\ ~view.refreshing)

\* C16: if every issued sub-request settles in the end, then after the last
\* trigger the loading and refreshing flags of the page shown become false
\* and stay false.
C16_FlagsEventuallyClear == <>[]FlagsClear

\* C16 witness: the first load of the Dashboard failed, nothing was ever
\* committed, and the spinner is gone.
C16_Witness ==
    /\ activePage = "dashboard"
    /\ mounts = 1
    /\ \A c \in LiveCycles : cycles[c].outcome = "failed"
    /\ view.summary = Null
    /\ ~view.loading /\ ~view.refreshing

C18_NoRetryOneReport ==
    /\ [](\A c \in DOMAIN cycles :
             cycles[c].page = "dashboard" =>
                /\ cycles[c].kind \in {"mount", "timer", "user"}
                /\ cycles[c].kind = "mount" => c = 1
                /\ cycles[c].errors = IF cycles[c].outcome = "failed" THEN 1 ELSE 0)
    /\ [][\A c \in DOMAIN cycles :
             cycles'[c] # cycles[c] =>
                /\ Len(cycles') = Len(cycles)
                /\ \A d \in DOMAIN cycles : d # c => cycles'[d] = cycles[d]]_vars

\* C18 witness: both sub-requests of a timer cycle were rejected, the cycle
\* has logged once, and no cycle was started after it.
C18_Witness ==
    /\ Len(cycles) = 2
    /\ cycles[2].kind = "timer"
    /\ cycles[2].outcome = "failed"
    /\ \A r \in DOMAIN cycles[2].subs : cycles[2].subs[r] = "err"
    /\ cycles[2].errors = 1

\* Mutation m gets its response in the step.
Answered(m) == mutations[m].status = "pending" /\ mutations'[m].status # "pending"

\* C19: in UsersPage the step in which a create, update or delete succeeds
\* starts one refetch of the users list, issued in that step, and no other
\* step starts such a refetch, so there are as many of them as successful
\* mutations; the step in which a mutation fails starts nothing and leaves
\* the users list, showModal, editingUser and formData as they were.
C19_RefetchAfterMutation ==
    /\ [](Cardinality({c \in DOMAIN cycles : cycles[c].kind = "mutation"})
            = Cardinality({m \in DOMAIN mutations : mutations[m].status = "ok"}))
    /\ [][\A m \in DOMAIN mutations :
             Answered(m) =>
                IF mutations'[m].status = "ok"
                THEN /\ Len(cycles') = Len(cycles) + 1
                     /\ SubSeq(cycles', 1, Len(cycles)) = cycles
                     /\ cycles'[Len(cycles')] =
                           NewCycle("users", mutations[m].inst, "mutation",
                                    cycles'[Len(cycles')].param)
                ELSE /\ cycles' = cycles
                     /\ view' = view]_vars

\* C19 witness: a delete succeeded and got its one refetch; later the save of
\* a new user failed, and the modal is still open with what was typed.
C19_Witness ==
    /\ activePage = "users"
    /\ Len(mutations) = 2
    /\ mutations[1].kind = "delete" /\ mutations[1].status = "ok"
    /\ mutations[2].kind = "create" /\ mutations[2].status = "err"
    /\ Cardinality({c \in DOMAIN cycles : cycles[c].kind = "mutation"}) = 1
    /\ view.showModal /\ view.formData = "typed"

\* The result fields of a page before any commit.
InitialSnapshot(page) ==
    CASE page = "dashboard" -> <<Null, EmptyList>>
      [] page = "metrics"   -> <<Null, Null, Null>>
      [] page = "users"     -> <<EmptyList>>
      [] OTHER              -> << >>

\* The cycles started by the page instance now mounted.
CyclesOfThisMount == {c \in DOMAIN cycles : cycles[c].inst = mounts}

\* C20: whatever earlier instances of the page fetched, the mounted page has
\* loading true until one of its own cycles terminates, its initial (empty)
\* snapshot until one of its own cycles commits, and every result it shows
\* was committed by a cycle of its own.
C20_NoStateAcrossMounts ==
    activePage \in {"dashboard", "metrics", "users"} =>
        LET shown == Snapshot(view, activePage)
        IN  /\ (\A c \in CyclesOfThisMount : ~Terminated(c)) => view.loading
            /\ (\A c \in CyclesOfThisMount : cycles[c].commits = 0)
                  => shown = InitialSnapshot(activePage)
            /\ \A i \in DOMAIN shown :
                  \/ shown[i] = InitialSnapshot(activePage)[i]
                  \/ /\ shown[i].cycle \in CyclesOfThisMount
                     /\ cycles[shown[i].cycle].commits > 0

\* C20 witness: the Dashboard was left after its first load and is mounted
\* again; it shows the spinner and nothing of what the first instance held.
C20_Witness ==
    /\ activePage = "dashboard"
    /\ mounts = 3
    /\ cycles[1].inst = 1 /\ cycles[1].commits = 1
    /\ view.loading
    /\ view.summary = Null /\ view.trends = EmptyList

\* The refetches started by successful mutations of the mounted UsersPage.
Refetches == {c \in CyclesOfThisMount : cycles[c].kind = "mutation"}

\* Nothing the mounted UsersPage has sent is still unanswered.
UsersQuiet ==
    /\ \A c \in CyclesOfThisMount : Terminated(c)
    /\ \A m \in DOMAIN mutations :
          mutations[m].inst = mounts => mutations[m].status # "pending"

\* C21: in UsersPage, once everything has settled after a successful save or
\* delete whose refetch succeeded, the list shown is the response of that
\* refetch or of a fetch started after it, never of a fetch started before.
C21_ListNotOlderThanMutation ==
    (activePage = "users" /\ UsersQuiet) =>
        \A c \in Refetches :
            cycles[c].outcome = "succeeded" => view.users.cycle >= c

\* C22: in UsersPage the request issued by a change of the maturity-level
\* filter asks for the level just selected: as long as that request is the
\* last one the page started, its parameter is the level the select shows.
C22_FilterRequestCarriesSelection ==
    activePage = "users" =>
        \A c \in CyclesOfThisMount :
            (cycles[c].kind = "filter" /\ LatestStarted(c))
               => cycles[c].param = view.filterLevel

\* C23: in UsersPage every submit of the form is PUT /users/{id} for the user
\* whose edit button opened the modal last, or POST /users when "Add User"
\* opened it last; "Add User" opens the modal with the blank form and no
\* edited user, whatever was edited or cancelled before.
C23_SubmitFollowsOpener ==
    /\ [](\A m \in DOMAIN mutations :
             mutations[m].kind # "delete" =>
                IF mutations[m].openedBy = Null
                THEN mutations[m].kind = "create" /\ mutations[m].target = Null
                ELSE /\ mutations[m].kind = "update"
                     /\ mutations[m].target = mutations[m].openedBy)
    /\ [][(activePage' = "users" /\ mounts' = mounts /\ view'.showModal
           /\ (~view.showModal \/ view'.openedBy # view.openedBy)
           /\ view'.openedBy = Null)
          => (view'.formData = BlankForm /\ view'.editingUser = Null)]_vars

\* C23 witness: the edit of user 1 was submitted and failed, the modal was
\* closed, and then "Add User" was submitted and went out as a create.
C23_Witness ==
    /\ Len(mutations) = 2
    /\ mutations[1].kind = "update" /\ mutations[1].target = User(1)
    /\ mutations[1].status = "err"
    /\ mutations[2].kind = "create" /\ mutations[2].openedBy = Null
    /\ activePage = "users" /\ view.showModal /\ view.formData = "typed"

\* C24: in the mounted MetricsPage at most one cycle is in flight; the
\* Refresh button can start a cycle only when none is; and the three metric
\* fields are never older than a cycle of the page that has committed.
C24_OneMetricsCycle ==
    activePage = "metrics" =>
        /\ Cardinality(LiveInFlight) <= 1
        /\ MetricsRefreshEnabled(view) => LiveInFlight = {}
        /\ \A c \in LiveCycles :
              cycles[c].commits > 0 =>
                 /\ view.adoptionMetrics.cycle >= c
                 /\ view.productivityMetrics.cycle >= c
                 /\ view.qualityMetrics.cycle >= c

\* C24 witness: after the first load of MetricsPage a user refresh is the
\* one cycle in flight, and the button is disabled.
C24_Witness ==
    /\ activePage = "metrics"
    /\ ~MetricsRefreshEnabled(view)
    /\ \E c, d \in LiveCycles :
          /\ cycles[c].commits = 1
          /\ cycles[d].kind = "user"
          /\ LiveInFlight = {d}

\* The GitHub requests not answered yet, and those of the mounted SettingsPage.
GithubPending == {m \in DOMAIN mutations : mutations[m].status = "pending"}

GithubPendingHere == {m \in GithubPending : mutations[m].inst = mounts}

\* C25: in SettingsPage at most one GitHub request is in flight at any time, and
\* testing and loading are never both true.
C25_OneGithubRequest ==
    /\ Cardinality(GithubPending) <= 1
    /\ activePage = "settings" => ~(view.testing /\ view.loading)

\* C26: in SettingsPage error and result are never both set.
C26_ErrorOrResultNotBoth ==
    activePage = "settings" => ~(view.error # Null /\ view.result # Null)

\* A button of SettingsPage was clicked and its handler returned early: the
\* state changed although no input was typed and no request sent or answered.
RejectedClick ==
    /\ activePage = "settings" /\ mounts' = mounts
    /\ mutations' = mutations
    /\ view'.token = view.token /\ view'.org = view.org
    /\ view' # view

\* C27: in SettingsPage no request is sent while the token or the
\* organization is empty; a click rejected for that reason sets error to the
\* validation message and leaves testing and loading false; testing (loading)
\* is true exactly while a test (sync) request of the mounted page is
\* unanswered, whether it then succeeds or fails.
C27_ValidationAndFlags ==
    /\ [](activePage = "settings" =>
             /\ view.testing <=> \E m \in GithubPendingHere : mutations[m].kind = "test"
             /\ view.loading <=> \E m \in GithubPendingHere : mutations[m].kind = "sync")
    /\ [][/\ (activePage = "settings" /\ ~HasCredentials(view))
                => Len(mutations') = Len(mutations)
          /\ RejectedClick =>
                /\ ~HasCredentials(view)
                /\ view'.error = ValidationError
                /\ ~view'.testing /\ ~view'.loading]_vars

\* C27 witness: a test of the mounted page failed, then Sync Data was clicked
\* with the token removed: the validation message is shown, nothing is in
\* flight and both flags are false.
C27_Witness ==
    /\ activePage = "settings"
    /\ view.token = "" /\ view.org # ""
    /\ view.error = ValidationError
    /\ ~view.testing /\ ~view.loading
    /\ Len(mutations) = 1
    /\ mutations[1].inst = mounts /\ mutations[1].status = "err"

IsNumber(x) == x.kind = "number"

\* C28: every percentage the rendered Dashboard derives from summary is a
\* number, with no snapshot and with total_users 0 too: the denominator is 1
\* when total_users is 0 or absent, the L5 share and the maturity bar widths
\* are numbers, and a KPI width is never above 100.
C28_PercentagesDefined ==
    view.rendered # Null =>
        /\ IsNumber(view.rendered.totalUsers) /\ view.rendered.totalUsers.val >= 1
        /\ IsNumber(view.rendered.l5Share)
        /\ IsNumber(view.rendered.l0Width)
        /\ IsNumber(view.rendered.l5Width)
        /\ view.rendered.kpiWidth.kind # "Infinity"
        /\ IsNumber(view.rendered.kpiWidth) => view.rendered.kpiWidth.val <= 100

\* C29: the count shown by a mounted AnimatedCounter never exceeds a
\* non-negative target; at most one interval of the counter is active, none
\* once the target is reached and none after the unmount; and the animation
\* ends: the count comes to equal the target with the interval stopped.
C29_CounterTerminates ==
    /\ [](/\ Cardinality(timers) <= 1
          /\ activePage # "dashboard" => timers = {}
          /\ activePage = "dashboard" =>
                /\ view.end >= 0 => Displayed(view) <= view.end
                /\ CounterDone(view) => timers = {})
    /\ <>[](activePage = "dashboard" =>
               (view.count = view.end * Duration /\ timers = {}))

=============================================================================
